---- MODULE Spec2Model ----
(***************************************************************************)
(* Model of src-tauri/src/lib.rs: the four Tauri commands parse_log,       *)
(* read_log_from_path, delete_mods and read_manifest_from_mod_file, the    *)
(* panic catcher safe_invoke and the helper build_mod_entry.               *)
(*                                                                         *)
(* Text (a log, a path, a file name) is a sequence of tokens.  A token is  *)
(* one character (the quote, the comma, a blank, a newline, the slash) or  *)
(* an indivisible chunk of characters none of which is one of those.       *)
(* The filesystem is a function from canonical absolute paths to files.    *)
(* Paths follow the Unix rules of std::path (separator "/").               *)
(***************************************************************************)
EXTENDS Integers, Sequences, FiniteSets, TLC

VARIABLES fs, trash, call, pre, body, result, io, note

vars == <<fs, trash, call, pre, body, result, io, note>>

\* ------------------------------------------------------------------ text

Q == "\""
SP == " "
NL == "\n"
COMMA == ","
SLASH == "/"
DOTDOT == ".."
ONLYW == "only"
WILL == "will be loaded. Skipped versions:"

IsWhite(c) == c \in {SP, NL}

RECURSIVE Concat(_)
Concat(ss) == IF ss = <<>> THEN <<>> ELSE Head(ss) \o Concat(Tail(ss))

StartsWith(s, p) == Len(p) <= Len(s) /\ SubSeq(s, 1, Len(p)) = p

EndsWith(s, p) == Len(p) <= Len(s) /\ SubSeq(s, Len(s) - Len(p) + 1, Len(s)) = p

\* ----------------------------------------------------------------- paths

\* str::split on the one-token pattern sep: the pieces between occurrences.
RECURSIVE SplitOn(_, _, _)
SplitOn(s, sep, cur) ==
    IF s = <<>> THEN <<cur>>
    ELSE IF Head(s) = sep THEN <<cur>> \o SplitOn(Tail(s), sep, <<>>)
    ELSE SplitOn(Tail(s), sep, Append(cur, Head(s)))

\* Path::components: the non-empty pieces between separators.
Components(p) == SelectSeq(SplitOn(p, SLASH, <<>>), LAMBDA c : c # <<>>)

IsAbsolute(p) == p # <<>> /\ Head(p) = SLASH

\* PathBuf::join: an absolute argument replaces the base.
Join(base, rel) ==
    IF IsAbsolute(rel) THEN rel
    ELSE IF base = <<>> \/ base[Len(base)] = SLASH THEN base \o rel
    ELSE base \o <<SLASH>> \o rel

\* Path::file_name: the last component unless it is "..".
HasFileName(p) ==
    LET cs == Components(p) IN cs # <<>> /\ cs[Len(cs)] # <<DOTDOT>>

FileName(p) == LET cs == Components(p) IN cs[Len(cs)]

\* The operating system's resolution of a path: ".." steps to the parent
\* (the parent of the root is the root); a relative path starts at the root.
RECURSIVE Walk(_, _)
Walk(cs, acc) ==
    IF cs = <<>> THEN acc
    ELSE IF Head(cs) = <<DOTDOT>>
         THEN Walk(Tail(cs), IF acc = <<>> THEN <<>> ELSE SubSeq(acc, 1, Len(acc) - 1))
         ELSE Walk(Tail(cs), Append(acc, Head(cs)))

RECURSIVE Unsplit(_)
Unsplit(cs) == IF cs = <<>> THEN <<>> ELSE <<SLASH>> \o Head(cs) \o Unsplit(Tail(cs))

Resolve(p) == Unsplit(Walk(Components(p), <<>>))

\* ------------------------------------------------------------ filesystem

GAME == <<SLASH, "g">>
OTHERGAME == <<SLASH, "h">>

LOG1 == <<SLASH, "g", SLASH, "output_log.txt">>
LOG2 == <<SLASH, "g", SLASH, "Koikatsu_Data", SLASH, "output_log.txt">>
LOG3 == <<SLASH, "g", SLASH, "BepInEx", SLASH, "LogOutput.log">>
MODA == <<SLASH, "g", SLASH, "mods", SLASH, "a">>
MODB == <<SLASH, "g", SLASH, "mods", SLASH, "b">>
EXT == <<SLASH, "e">>

Files == {LOG1, LOG2, LOG3, MODA, MODB, EXT}

Absent == [kind |-> "absent", perm |-> "rw", size |-> 0, created |-> <<>>, data |-> <<>>]

Exists(f, p) == Resolve(p) \in Files /\ f[Resolve(p)].kind # "absent"

\* ------------------------------------------------------------ outcomes

Ok(v) == [kind |-> "Ok", val |-> v]
Err(m) == [kind |-> "Err", val |-> m]
Panic(payload) == [kind |-> "Panic", val |-> payload]

NoPanic == [type |-> "none", msg |-> ""]
Payloads ==
    { [type |-> "str", msg |-> "index out of bounds"],
      [type |-> "String", msg |-> "called unwrap on None"],
      [type |-> "other", msg |-> "42"] }

\* lib.rs 22-28: the message of a panic payload.
panic_msg(payload) ==
    IF payload.type = "str" THEN payload.msg
    ELSE IF payload.type = "String" THEN payload.msg
    ELSE "Any { .. }"

\* Variant of safe_invoke: a caught panic is reported as success.
safe_invoke_swallow(out) ==
    IF out.kind = "Panic" THEN Ok(<<>>) ELSE out

\* lib.rs 18-34: the closure's own result, or Err for a caught panic.
safe_invoke(out) ==
    IF out.kind = "Panic"
    THEN Err(<<"Internal error occurred: ", panic_msg(out.val)>>)
    ELSE out

\* ------------------------------------------------------------ delete_mods

\* trash::delete: fails for a missing path and for one the user may not move.
TrashError(f, p) ==
    IF ~Exists(f, p) THEN "NotFound"
    ELSE IF f[Resolve(p)].perm = "ro" THEN "PermissionDenied"
    ELSE "none"

\* lib.rs 170-177: the loop, from position i on; fault.at is the position
\* whose trash::delete call panics (0: none does).  A relative path is taken
\* from the root.
RECURSIVE delete_loop(_, _, _, _, _, _)
delete_loop(paths, i, f, t, tr, fault) ==
    IF i > Len(paths) THEN [fs |-> f, trash |-> t, io |-> tr, out |-> Ok(<<>>)]
    ELSE LET path == paths[i]
             tr2 == Append(tr, <<"trash::delete", path>>)
         IN  IF fault.at = i
             THEN [fs |-> f, trash |-> t, io |-> tr2, out |-> Panic(fault.payload)]
             ELSE IF TrashError(f, path) # "none"
             THEN [fs |-> f, trash |-> t, io |-> tr2,
                   out |-> Err(<<"Failed to delete ", path, ": ", TrashError(f, path)>>)]
             ELSE delete_loop(paths, i + 1,
                              [f EXCEPT ![Resolve(path)] = Absent],
                              t \cup {[path |-> Resolve(path), file |-> f[Resolve(path)]]},
                              tr2, fault)

\* Variant of delete_mods_body: goes on after a failed trash::delete and reports
\* the first error at the end.
delete_mods_continue(paths, f, t, fault) ==
    LET RECURSIVE go(_, _, _, _, _)
        go(i, g, u, tr, firstErr) ==
            IF i > Len(paths)
            THEN [fs |-> g, trash |-> u, io |-> tr,
                  out |-> IF firstErr = <<>> THEN Ok(<<>>) ELSE Err(firstErr)]
            ELSE LET path == paths[i]
                     tr2 == Append(tr, <<"trash::delete", path>>)
                 IN  IF TrashError(g, path) # "none"
                     THEN go(i + 1, g, u, tr2,
                             IF firstErr = <<>>
                             THEN <<"Failed to delete ", path, ": ", TrashError(g, path)>>
                             ELSE firstErr)
                     ELSE go(i + 1, [g EXCEPT ![Resolve(path)] = Absent],
                             u \cup {[path |-> Resolve(path), file |-> g[Resolve(path)]]},
                             tr2, firstErr)
    IN  go(1, f, t, <<>>, <<>>)

\* lib.rs 169-178: the closure of delete_mods.
delete_mods_body(paths, f, t, fault) == delete_loop(paths, 1, f, t, <<>>, fault)

\* --------------------------------------------------- read_log_from_path

\* Variant of candidates: the BepInEx log is looked for first.
candidates_reordered(game_path) ==
    << Join(Join(game_path, <<"BepInEx">>), <<"LogOutput.log">>),
       Join(game_path, <<"output_log.txt">>),
       Join(Join(game_path, <<"Koikatsu_Data">>), <<"output_log.txt">>) >>

\* lib.rs 146-150
candidates(game_path) ==
    << Join(game_path, <<"output_log.txt">>),
       Join(Join(game_path, <<"Koikatsu_Data">>), <<"output_log.txt">>),
       Join(Join(game_path, <<"BepInEx">>), <<"LogOutput.log">>) >>

\* fs::read_to_string: the text of a readable text file, else the error.
ReadError(f, p) ==
    IF ~Exists(f, p) THEN "NotFound"
    ELSE IF f[Resolve(p)].kind = "dir" THEN "IsADirectory"
    ELSE IF f[Resolve(p)].kind = "binary" THEN "InvalidData"
    ELSE IF f[Resolve(p)].kind = "noaccess" THEN "PermissionDenied"
    ELSE "none"

\* Variant of read_log_loop: an unreadable candidate is skipped for the next.
RECURSIVE read_log_loop_fallback(_, _, _, _)
read_log_loop_fallback(cs, i, f, tr) ==
    IF i > Len(cs)
    THEN [io |-> tr, out |-> Err(<<"No known log file found in the specified game path.">>)]
    ELSE LET tr2 == Append(tr, <<"exists", cs[i]>>)
         IN  IF Exists(f, cs[i]) /\ ReadError(f, cs[i]) = "none"
             THEN [io |-> Append(tr2, <<"read_to_string", cs[i]>>),
                   out |-> Ok(f[Resolve(cs[i])].data)]
             ELSE IF Exists(f, cs[i]) /\ i = Len(cs)
             THEN [io |-> Append(tr2, <<"read_to_string", cs[i]>>),
                   out |-> Err(<<"Failed to read log file: ", ReadError(f, cs[i])>>)]
             ELSE read_log_loop_fallback(cs, i + 1, f, tr2)

\* lib.rs 152-163: the loop over the candidates, from position i on.
RECURSIVE read_log_loop(_, _, _, _)
read_log_loop(cs, i, f, tr) ==
    IF i > Len(cs)
    THEN [io |-> tr, out |-> Err(<<"No known log file found in the specified game path.">>)]
    ELSE LET tr2 == Append(tr, <<"exists", cs[i]>>)
         IN  IF Exists(f, cs[i])
             THEN [io |-> Append(tr2, <<"read_to_string", cs[i]>>),
                   out |-> IF ReadError(f, cs[i]) = "none"
                           THEN Ok(f[Resolve(cs[i])].data)
                           ELSE Err(<<"Failed to read log file: ", ReadError(f, cs[i])>>)]
             ELSE read_log_loop(cs, i + 1, f, tr2)

\* lib.rs 143-164: the closure of read_log_from_path.
read_log_body(game_path, f, fault) ==
    IF fault.at # 0 THEN [io |-> <<>>, out |-> Panic(fault.payload)]
    ELSE read_log_loop(candidates(game_path), 1, f, <<>>)

\* ---------------------------------------------------------------- regex

\* The position after the run of whitespace that starts at i.
RECURSIVE SkipWhite(_, _)
SkipWhite(s, i) == IF i <= Len(s) /\ IsWhite(s[i]) THEN SkipWhite(s, i + 1) ELSE i

\* The position after the run of non-quote tokens that starts at i.
RECURSIVE SkipName(_, _)
SkipName(s, i) == IF i <= Len(s) /\ s[i] # Q THEN SkipName(s, i + 1) ELSE i

\* "[^"]+" at i: the position after the closing quote, or 0 when i does not
\* start a quoted non-empty name.
QuotedEnd(s, i) ==
    IF i > Len(s) \/ s[i] # Q THEN 0
    ELSE LET k == SkipName(s, i + 1)
         IN  IF k = i + 1 \/ k > Len(s) THEN 0 ELSE k + 1

\* (?:"[^"]+",\s*)*"[^"]+" with a name already matched up to e (exclusive):
\* the greedy star takes every further `,\s*"name"` that is there.
RECURSIVE ListEnd(_, _)
ListEnd(s, e) ==
    IF e <= Len(s) /\ s[e] = COMMA /\ QuotedEnd(s, SkipWhite(s, e + 1)) # 0
    THEN ListEnd(s, QuotedEnd(s, SkipWhite(s, e + 1)))
    ELSE e

NoMatch == [start |-> 0, end |-> 0, g1 |-> <<>>, g2 |-> <<>>]

\* lib.rs 111-113: the match of the conflict expression that starts at i:
\*   only\s+"([^"]+)"\s+will be loaded\. Skipped versions:\s+((?:"[^"]+",\s*)*"[^"]+")
MatchAt(s, i) ==
    IF i > Len(s) \/ s[i] # ONLYW THEN NoMatch
    ELSE LET q1 == SkipWhite(s, i + 1)
             e1 == QuotedEnd(s, q1)
         IN  IF q1 = i + 1 \/ e1 = 0 THEN NoMatch
             ELSE LET w == SkipWhite(s, e1)
                  IN  IF w = e1 \/ w > Len(s) \/ s[w] # WILL THEN NoMatch
                      ELSE LET q2 == SkipWhite(s, w + 1)
                               e2 == QuotedEnd(s, q2)
                           IN  IF q2 = w + 1 \/ e2 = 0 THEN NoMatch
                               ELSE [start |-> i, end |-> ListEnd(s, e2),
                                     g1 |-> SubSeq(s, q1 + 1, e1 - 2),
                                     g2 |-> SubSeq(s, q2, ListEnd(s, e2) - 1)]

\* Regex::captures_iter: the leftmost match at or after i, then the matches
\* after its end.
RECURSIVE captures_iter(_, _)
captures_iter(s, i) ==
    IF i > Len(s) THEN <<>>
    ELSE IF MatchAt(s, i).start = 0 THEN captures_iter(s, i + 1)
    ELSE <<MatchAt(s, i)>> \o captures_iter(s, MatchAt(s, i).end)

\* str::split on a pattern of several tokens, occurrences taken left to right.
RECURSIVE SplitPat(_, _, _)
SplitPat(s, pat, cur) ==
    IF s = <<>> THEN <<cur>>
    ELSE IF StartsWith(s, pat)
         THEN <<cur>> \o SplitPat(SubSeq(s, Len(pat) + 1, Len(s)), pat, <<>>)
         ELSE SplitPat(Tail(s), pat, Append(cur, Head(s)))

\* str::trim_matches('"')
RECURSIVE TrimQuotes(_)
TrimQuotes(s) ==
    IF s # <<>> /\ Head(s) = Q THEN TrimQuotes(Tail(s))
    ELSE IF s # <<>> /\ s[Len(s)] = Q THEN TrimQuotes(SubSeq(s, 1, Len(s) - 1))
    ELSE s

\* -------------------------------------------------------------- parse_log

\* lib.rs 71-99
build_mod_entry(full_path, rel_path_for_name, f) ==
    [ name |-> IF HasFileName(rel_path_for_name)
               THEN FileName(rel_path_for_name) ELSE rel_path_for_name,
      path |-> full_path,
      size |-> IF Exists(f, full_path) THEN f[Resolve(full_path)].size ELSE 0,
      created |-> IF Exists(f, full_path) THEN f[Resolve(full_path)].created ELSE <<>> ]

\* Variant of skipped_entries: versions whose file is missing are left out.
skipped_entries_existing(skipped_raw, base_mods_path, f) ==
    LET rels == SelectSeq(SplitPat(skipped_raw, <<COMMA, SP>>, <<>>),
                          LAMBDA r : Exists(f, Join(base_mods_path, TrimQuotes(r))))
    IN  [ k \in 1..Len(rels) |->
            build_mod_entry(Join(base_mods_path, TrimQuotes(rels[k])), TrimQuotes(rels[k]), f) ]

\* lib.rs 126-133
skipped_entries(skipped_raw, base_mods_path, f) ==
    LET rels == SplitPat(skipped_raw, <<COMMA, SP>>, <<>>)
    IN  [ k \in 1..Len(rels) |->
            build_mod_entry(Join(base_mods_path, TrimQuotes(rels[k])), TrimQuotes(rels[k]), f) ]

\* lib.rs 117-136: one ModConflict for a match.
mod_conflict(cap, base_mods_path, f) ==
    [ loaded |-> build_mod_entry(Join(base_mods_path, cap.g1), cap.g1, f),
      skipped |-> skipped_entries(cap.g2, base_mods_path, f) ]

\* Variant of parse_log_body: Regex::captures in place of captures_iter.
parse_log_body_first_only(log, game_path, f, fault) ==
    IF fault.at # 0 THEN Panic(fault.payload)
    ELSE LET caps == captures_iter(log, 1)
             base_mods_path == Join(game_path, <<"mods">>)
         IN  Ok([ k \in 1..(IF caps = <<>> THEN 0 ELSE 1) |->
                    mod_conflict(caps[k], base_mods_path, f) ])

\* lib.rs 106-140: the closure of parse_log.
parse_log_body(log, game_path, f, fault) ==
    IF fault.at # 0 THEN Panic(fault.payload)
    ELSE LET caps == captures_iter(log, 1)
             base_mods_path == Join(game_path, <<"mods">>)
         IN  Ok([ k \in 1..Len(caps) |-> mod_conflict(caps[k], base_mods_path, f) ])

\* ------------------------------------------- read_manifest_from_mod_file

\* str::to_lowercase on the chunks entry names are made of.
LowerTok(c) ==
    IF c \in {"MANIFEST", "Manifest"} THEN "manifest"
    ELSE IF c \in {".XML", ".Xml"} THEN ".xml"
    ELSE c

to_lowercase(name) == [k \in 1..Len(name) |-> LowerTok(name[k])]

MANIFEST_XML == <<"manifest", ".xml">>

\* File::open and ZipArchive::new (lib.rs 186-194): the error, or "none".
OpenError(f, p) == IF Exists(f, p) THEN "none" ELSE "NotFound"

ZipError(f, p) == IF f[Resolve(p)].kind = "zip" THEN "none" ELSE "InvalidArchive"

\* Variant of manifest_loop: a manifest that cannot be read or parsed is
\* passed over for a later one.
RECURSIVE manifest_loop_rescue(_, _, _)
manifest_loop_rescue(entries, i, tr) ==
    IF i > Len(entries)
    THEN [io |-> tr, out |-> Err(<<"manifest.xml not found in zip file">>)]
    ELSE LET tr2 == Append(tr, <<"by_index", i>>)
             entry == entries[i]
         IN  IF ~entry.access
             THEN [io |-> tr2, out |-> Err(<<"Zip error: ", "InvalidArchive">>)]
             ELSE IF EndsWith(to_lowercase(entry.name), MANIFEST_XML) /\ entry.utf8 /\ entry.xml
             THEN [io |-> Append(tr2, <<"read_to_string", i>>), out |-> Ok([guid |-> entry.guid])]
             ELSE manifest_loop_rescue(entries, i + 1, tr2)

\* lib.rs 196-221: the scan of the entries, from index i on (entries are
\* numbered from 1 here, from 0 in the code).
RECURSIVE manifest_loop(_, _, _)
manifest_loop(entries, i, tr) ==
    IF i > Len(entries)
    THEN [io |-> tr, out |-> Err(<<"manifest.xml not found in zip file">>)]
    ELSE LET tr2 == Append(tr, <<"by_index", i>>)
             entry == entries[i]
         IN  IF ~entry.access
             THEN [io |-> tr2, out |-> Err(<<"Zip error: ", "InvalidArchive">>)]
             ELSE IF EndsWith(to_lowercase(entry.name), MANIFEST_XML)
             THEN [io |-> Append(tr2, <<"read_to_string", i>>),
                   out |-> IF ~entry.utf8 THEN Err(<<"Read error: ", "InvalidData">>)
                           ELSE IF ~entry.xml THEN Err(<<"XML parse error: ", "MissingField">>)
                           ELSE Ok([guid |-> entry.guid])]
             ELSE manifest_loop(entries, i + 1, tr2)

\* lib.rs 182-223: the closure of read_manifest_from_mod_file.
read_manifest_body(path, f, fault) ==
    IF fault.at # 0 THEN [io |-> <<>>, out |-> Panic(fault.payload)]
    ELSE IF OpenError(f, path) # "none"
    THEN [io |-> <<>>, out |-> Err(<<"Failed to open file: ", OpenError(f, path)>>)]
    ELSE IF ZipError(f, path) # "none"
    THEN [io |-> <<>>, out |-> Err(<<"Invalid zip file: ", ZipError(f, path)>>)]
    ELSE manifest_loop(f[Resolve(path)].data, 1, <<>>)

\* ------------------------------------------------------------- commands
\* A command maps its arguments and the world (filesystem f, trash t) to the
\* world after it, the closure's outcome (out), the value safe_invoke hands
\* to the caller (ret) and the library calls it made (io).

Done(f, t, tr, out) ==
    [fs |-> f, trash |-> t, io |-> tr, out |-> out, ret |-> safe_invoke(out)]

\* lib.rs 105-140
parse_log(log, game_path, f, t, fault) ==
    Done(f, t, <<>>, parse_log_body(log, game_path, f, fault))

\* Variant of read_log_from_path: the previous answer is handed out again
\* when the previous call was read_log_from_path too.
read_log_from_path_cached(game_path, f, t, fault) ==
    IF call.op = "read_log_from_path"
    THEN Done(f, t, <<>>, result)
    ELSE LET r == read_log_body(game_path, f, fault) IN Done(f, t, r.io, r.out)

\* lib.rs 142-165
read_log_from_path(game_path, f, t, fault) ==
    LET r == read_log_body(game_path, f, fault) IN Done(f, t, r.io, r.out)

\* lib.rs 167-179
delete_mods(paths, f, t, fault) ==
    LET r == delete_mods_body(paths, f, t, fault) IN Done(r.fs, r.trash, r.io, r.out)

\* lib.rs 181-223
read_manifest_from_mod_file(path, f, t, fault) ==
    LET r == read_manifest_body(path, f, fault) IN Done(f, t, r.io, r.out)

\* ---------------------------------------------------------------- state

NoFault == [at |-> 0, payload |-> NoPanic]
NoCall == [op |-> "none", args |-> <<>>]
NoNote == [op |-> "none", args |-> <<>>, fs |-> <<>>, prev |-> NoCall, ret |-> [kind |-> "Ok", val |-> <<>>]]

TypeOK ==
    /\ DOMAIN fs = Files
    /\ call.op \in {"none", "parse_log", "read_log_from_path", "delete_mods",
                    "read_manifest_from_mod_file"}
    /\ body.kind \in {"Ok", "Err", "Panic"}
    /\ result.kind \in {"Ok", "Err"}

\* One call of a command: the world changes as the command says; call, pre,
\* body, result and io record the call for the properties below.  The note
\* remembers one earlier call (keep: this one) with the filesystem it ran on.
Record(op, args, r, keep) ==
    /\ fs' = r.fs
    /\ trash' = r.trash
    /\ call' = [op |-> op, args |-> args]
    /\ pre' = [fs |-> fs, trash |-> trash]
    /\ body' = r.out
    /\ result' = r.ret
    /\ io' = r.io
    /\ note' = IF keep /\ note.op = "none"
               THEN [op |-> op, args |-> args, fs |-> fs, prev |-> call, ret |-> r.ret]
               ELSE note

CallParseLog(log, game_path, fault, keep) ==
    Record("parse_log", <<log, game_path>>, parse_log(log, game_path, fs, trash, fault), keep)

CallReadLog(game_path, fault, keep) ==
    Record("read_log_from_path", <<game_path>>,
           read_log_from_path(game_path, fs, trash, fault), keep)

CallDeleteMods(paths, fault, keep) ==
    Record("delete_mods", <<paths>>, delete_mods(paths, fs, trash, fault), keep)

CallReadManifest(path, fault, keep) ==
    Record("read_manifest_from_mod_file", <<path>>,
           read_manifest_from_mod_file(path, fs, trash, fault), keep)

InitCalls ==
    /\ trash = {}
    /\ call = NoCall
    /\ pre = [fs |-> fs, trash |-> {}]
    /\ body = Ok(<<>>)
    /\ result = Ok(<<>>)
    /\ io = <<>>
    /\ note = NoNote

\* ---------------------------------------------------------------- files

TextFile(text) ==
    [kind |-> "text", perm |-> "rw", size |-> Len(text), created |-> <<1>>, data |-> text]
Directory == [kind |-> "dir", perm |-> "rw", size |-> 0, created |-> <<1>>, data |-> <<>>]
BinaryFile == [kind |-> "binary", perm |-> "rw", size |-> 3, created |-> <<>>, data |-> <<>>]
ZipFile(entries) ==
    [kind |-> "zip", perm |-> "rw", size |-> 7 + Len(entries), created |-> <<2>>,
     data |-> entries]
ReadOnly(file) == [file EXCEPT !.perm = "ro"]

NoFiles == [p \in Files |-> Absent]

\* ------------------------------------------- specification: the log lookup

LogText(k) == <<"log", k>>

NoAccess == [kind |-> "noaccess", perm |-> "rw", size |-> 5, created |-> <<1>>, data |-> <<>>]

LogStates(k) == {Absent, TextFile(LogText(k)), Directory, BinaryFile, NoAccess}

GamePaths == {GAME, OTHERGAME, GAME \o <<SLASH>>}

InitLog ==
    /\ fs \in { [NoFiles EXCEPT ![LOG1] = a, ![LOG2] = b, ![LOG3] = c] :
                  a \in LogStates("1"), b \in LogStates("2"), c \in LogStates("3") }
    /\ InitCalls

NextLog ==
    \/ \E g \in GamePaths : CallReadLog(g, NoFault, FALSE)
    \/ \E p \in {LOG1, LOG2, LOG3} : CallDeleteMods(<<p>>, NoFault, FALSE)

SpecLog == InitLog /\ [][NextLog]_vars

\* --------------------------------------- specification: delete to trash

MaxPaths == 3

ALIAS_A == <<SLASH, "g", SLASH, "mods", SLASH, DOTDOT, SLASH, "mods", SLASH, "a">>
NOWHERE == <<SLASH, "nowhere">>

DeletePaths == {MODA, MODB, ALIAS_A, NOWHERE}

SeqsUpTo(S, n) == UNION { [1..k -> S] : k \in 0..n }

ModStates(k) == {Absent, TextFile(<<"mod", k>>), ReadOnly(TextFile(<<"mod", k>>))}

InitDelete ==
    /\ fs \in { [NoFiles EXCEPT ![MODA] = a, ![MODB] = b, ![EXT] = TextFile(<<"e">>)] :
                  a \in {Absent, TextFile(<<"mod", "a">>)}, b \in ModStates("b") }
    /\ InitCalls

NextDelete ==
    \E paths \in SeqsUpTo(DeletePaths, MaxPaths) : CallDeleteMods(paths, NoFault, FALSE)

SpecDelete == InitDelete /\ [][NextDelete]_vars

\* ------------------------------------- specification: the manifest scan

MaxEntries == 2

EntryNames ==
    { <<"manifest", ".xml">>, <<"MANIFEST", ".XML">>, <<"abdata/", "Manifest", ".xml">>,
      <<"readme.txt">>, <<"manifest", ".xml", ".bak">> }

Entry(ac, n, u, x, g) == [access |-> ac, name |-> n, utf8 |-> u, xml |-> x, guid |-> g]

Entries ==
    { Entry(TRUE, n, TRUE, TRUE, g) : n \in EntryNames, g \in {"guid1", "guid2"} }
    \cup { Entry(TRUE, n, TRUE, FALSE, "") : n \in EntryNames }
    \cup { Entry(TRUE, n, FALSE, FALSE, "") : n \in EntryNames }
    \cup { Entry(FALSE, n, TRUE, TRUE, "guid1") : n \in {<<"manifest", ".xml">>, <<"readme.txt">>} }

InitManifest ==
    /\ fs \in { [NoFiles EXCEPT ![MODA] = a,
                                ![MODB] = ZipFile(<<Entry(TRUE, <<"manifest", ".xml">>, TRUE, TRUE, "guid1")>>)] :
                  a \in {Absent, Directory, TextFile(<<"mod", "a">>)}
                        \cup {ZipFile(es) : es \in SeqsUpTo(Entries, MaxEntries)} }
    /\ InitCalls

NextManifest ==
    \/ \E p \in {MODA, MODB, ALIAS_A, NOWHERE} : CallReadManifest(p, NoFault, FALSE)
    \/ \E p \in {MODA, MODB} : CallDeleteMods(<<p>>, NoFault, FALSE)

SpecManifest == InitManifest /\ [][NextManifest]_vars

\* ------------------------------------------ specification: log parsing

MaxSkipped == 2
MaxBlocks == 2

NAME_A == <<"a">>
NAME_B == <<"b">>
NAME_ABS == <<SLASH, "e">>
NAME_UP == <<DOTDOT, SLASH, DOTDOT, SLASH, "e">>

\* The names a conflict line lists after its loaded name, in a fixed cycle.
NameCycle == <<NAME_A, NAME_B, NAME_ABS, NAME_UP>>

Separators == { <<COMMA, SP>>, <<COMMA>>, <<COMMA, SP, SP>>, <<COMMA, NL>> }

Quoted(n) == <<Q>> \o n \o <<Q>>

RECURSIVE QuotedList(_, _)
QuotedList(names, sep) ==
    IF Len(names) = 1 THEN Quoted(names[1])
    ELSE Quoted(names[1]) \o sep \o QuotedList(Tail(names), sep)

\* A line as the game's loader writes it: the k versions after the one at
\* position l of the cycle are skipped.
ConflictLine(l, k, sep) ==
    <<"[Warning]", SP, ONLYW, SP>> \o Quoted(NameCycle[l]) \o <<SP, WILL, SP>>
    \o QuotedList([j \in 1..k |-> NameCycle[((l + j - 1) % Len(NameCycle)) + 1]], sep)
    \o <<NL>>

ConflictLines ==
    { ConflictLine(1, k, sep) : k \in 1..MaxSkipped, sep \in Separators }
    \cup { ConflictLine(3, k, <<COMMA, SP>>) : k \in 1..MaxSkipped }

\* Lines that hold a part of the expression only, and one whose loaded name
\* itself ends like the start of a conflict line.
OtherLines ==
    { <<"[Info]", SP, "x", NL>>,
      <<ONLYW, SP>> \o Quoted(NAME_A) \o <<SP, WILL, NL>>,
      <<ONLYW, SP>> \o Quoted(<<"x", SP, ONLYW, SP>>) \o <<SP, WILL, SP>>
         \o Quoted(<<SP, WILL, SP>>) \o <<COMMA, SP>> \o Quoted(NAME_B) \o <<NL>> }

Logs == { Concat(ls) : ls \in SeqsUpTo(ConflictLines \cup OtherLines, MaxBlocks) }

\* The game has written its log to output_log.txt.
InitParse ==
    /\ fs \in { [NoFiles EXCEPT ![LOG1] = TextFile(log), ![MODA] = a,
                                ![MODB] = TextFile(<<"mod", "b">>), ![EXT] = c] :
                  log \in Logs, a \in {Absent, ZipFile(<<>>)}, c \in {Absent, BinaryFile} }
    /\ InitCalls

\* The path of each entry of a parse_log result.
EntryPaths(conflicts) ==
    UNION { {conflicts[k].loaded.path}
            \cup {conflicts[k].skipped[j].path : j \in 1..Len(conflicts[k].skipped)} :
            k \in 1..Len(conflicts) }

\* The front end hands parse_log the text read_log_from_path returned.
CallParseRead(fault, keep) ==
    /\ call.op = "read_log_from_path"
    /\ result.kind = "Ok"
    /\ CallParseLog(result.val, call.args[1], fault, keep)

\* The front end hands delete_mods a path of the last parse_log result.
CallDeleteParsed(fault, keep) ==
    /\ call.op = "parse_log"
    /\ result.kind = "Ok"
    /\ \E p \in EntryPaths(result.val) : CallDeleteMods(<<p>>, fault, keep)

NextParse ==
    \/ CallReadLog(GAME, NoFault, FALSE)
    \/ CallParseRead(NoFault, FALSE)
    \/ CallDeleteParsed(NoFault, FALSE)

SpecParse == InitParse /\ [][NextParse]_vars

\* ------------------------------------ specification: the four commands

ValidManifest == Entry(TRUE, <<"manifest", ".xml">>, TRUE, TRUE, "guid1")

MainLogs == { ConflictLine(1, 1, <<COMMA, SP>>), <<"[Info]", SP, "x", NL>> }

MainDeletes == { <<>>, <<LOG1>>, <<MODA>>, <<MODA, LOG1>>, <<NOWHERE, MODA>> }

\* A library call of the closure may panic: the only one of parse_log,
\* read_log_from_path and read_manifest_from_mod_file, or the trash::delete
\* call for position at of delete_mods.
Faults ==
    {NoFault} \cup { [at |-> 1, payload |-> p] : p \in Payloads }
    \cup { [at |-> 2, payload |-> CHOOSE p \in Payloads : p.type = "String"] }

InitMain ==
    /\ fs \in { [NoFiles EXCEPT ![LOG1] = a, ![LOG2] = TextFile(LogText("2")),
                                ![MODA] = ZipFile(<<ValidManifest>>),
                                ![MODB] = TextFile(<<"mod", "b">>)] :
                  a \in {TextFile(ConflictLine(1, 1, <<COMMA, SP>>)), Directory} }
    /\ InitCalls

Commands(fault, keep) ==
    \/ \E log \in MainLogs : CallParseLog(log, GAME, fault, keep)
    \/ \E g \in {GAME, OTHERGAME} : CallReadLog(g, fault, keep)
    \/ \E paths \in MainDeletes : CallDeleteMods(paths, fault, keep)
    \/ \E p \in {MODA, MODB} : CallReadManifest(p, fault, keep)

Next == \E fault \in Faults : Commands(fault, FALSE)

Spec == InitMain /\ [][Next]_vars

\* The same commands without panics, one earlier call remembered.
NextHistory == \E keep \in BOOLEAN : Commands(NoFault, keep)

SpecHistory == InitMain /\ [][NextHistory]_vars

\* ------------------------------------------------ properties: log lookup

\* The three candidate files of a game directory, in the documented order.
LogCandidates(g) ==
    << Resolve(g) \o <<SLASH, "output_log.txt">>,
       Resolve(g) \o <<SLASH, "Koikatsu_Data", SLASH, "output_log.txt">>,
       Resolve(g) \o <<SLASH, "BepInEx", SLASH, "LogOutput.log">> >>

Present(f, p) == p \in Files /\ f[p].kind # "absent"

ExistingCandidates(f, g) == {k \in 1..3 : Present(f, LogCandidates(g)[k])}

Earliest(S) == CHOOSE k \in S : \A j \in S : k <= j

NoLogMessage == <<"No known log file found in the specified game path.">>

\* C2: read_log_from_path returns the text of the earliest existing candidate
\* (output_log.txt, Koikatsu_Data/output_log.txt, BepInEx/LogOutput.log) when
\* every existing candidate is readable, and the "No known log file" error
\* exactly when no candidate exists.
C2_EarliestCandidate ==
    call.op = "read_log_from_path" =>
        LET g == call.args[1]
            E == ExistingCandidates(pre.fs, g)
            c == LogCandidates(g)
        IN  /\ (E # {} /\ \A k \in E : pre.fs[c[k]].kind = "text")
                  => /\ result.kind = "Ok"
                     /\ result.val = pre.fs[c[Earliest(E)]].data
            /\ (result.kind = "Err" /\ result.val = NoLogMessage) <=> (E = {})

C2_Witness ==
    /\ call.op = "read_log_from_path"
    /\ call.args[1] = GAME
    /\ pre.fs[LOG1].kind = "absent"
    /\ pre.fs[LOG2].kind = "text"
    /\ pre.fs[LOG3].kind = "text"
    /\ result = Ok(LogText("2"))

\* The library calls of the last command that name a path resolving to p.
Touches(p) == \E k \in 1..Len(io) : Resolve(io[k][2]) = p

\* C7: when the earliest existing candidate cannot be read, the command
\* returns "Failed to read log file: <error>" and makes no call on any later
\* candidate, whether or not one exists and is readable.
C7_FirstErrorNoFallback ==
    call.op = "read_log_from_path" =>
        LET g == call.args[1]
            E == ExistingCandidates(pre.fs, g)
            c == LogCandidates(g)
        IN  (E # {} /\ pre.fs[c[Earliest(E)]].kind # "text")
               => /\ result.kind = "Err"
                  /\ Len(result.val) = 2
                  /\ result.val[1] = "Failed to read log file: "
                  /\ result.val[2] \in {"IsADirectory", "InvalidData", "PermissionDenied"}
                  /\ \A j \in 1..3 : j > Earliest(E) => ~Touches(c[j])

C7_Witness ==
    /\ call.op = "read_log_from_path"
    /\ call.args[1] = GAME
    /\ pre.fs[LOG1].kind = "dir"
    /\ pre.fs[LOG2].kind = "text"
    /\ result = Err(<<"Failed to read log file: ", "IsADirectory">>)

\* --------------------------------------------- properties: delete_mods

\* trash::delete refuses position i of the list when everything before it
\* went to the trash: the file is missing, protected, or already trashed by
\* an earlier position of the same list.
Refused(f, paths, i) ==
    \/ ~Present(f, Resolve(paths[i]))
    \/ f[Resolve(paths[i])].perm = "ro"
    \/ \E j \in 1..(i - 1) : Resolve(paths[j]) = Resolve(paths[i])

RefusedSet(f, paths) == {i \in 1..Len(paths) : Refused(f, paths, i)}

InTrash(t, f, p) == [path |-> p, file |-> f[p]] \in t

\* C1: delete_mods works through the list in order.  At the first position i
\* that trash::delete refuses it returns "Failed to delete <path>: <error>"
\* naming that path; the positions before i are in the trash and gone from
\* the filesystem, no position after i is touched.  It returns Ok exactly when
\* every listed path went to the trash, and for the empty list changes nothing.
C1_FirstErrorStops ==
    call.op = "delete_mods" =>
        LET paths == call.args[1]
            B == RefusedSet(pre.fs, paths)
            n == IF B = {} THEN Len(paths) ELSE Earliest(B) - 1
            gone == {Resolve(paths[j]) : j \in 1..n}
        IN  /\ pre.trash \subseteq trash
            /\ \A p \in gone : fs[p] = Absent /\ InTrash(trash, pre.fs, p)
            /\ \A p \in Files \ gone : fs[p] = pre.fs[p]
            /\ trash \ pre.trash = {[path |-> p, file |-> pre.fs[p]] : p \in gone}
            /\ B # {} =>
                 /\ result.kind = "Err"
                 /\ Len(result.val) = 4
                 /\ result.val[1] = "Failed to delete "
                 /\ result.val[2] = paths[Earliest(B)]
                 /\ io = [k \in 1..Earliest(B) |-> <<"trash::delete", paths[k]>>]
            /\ B = {} => result = Ok(<<>>) /\ Len(io) = Len(paths)
            /\ result.kind = "Ok" => B = {}
            /\ paths = <<>> => result = Ok(<<>>) /\ fs = pre.fs /\ trash = pre.trash

C1_Witness ==
    /\ call.op = "delete_mods"
    /\ call.args[1] = <<MODA, NOWHERE, MODB>>
    /\ pre.fs[MODA].kind = "text"
    /\ pre.fs[MODB].kind = "text"
    /\ result = Err(<<"Failed to delete ", NOWHERE, ": ", "NotFound">>)
    /\ fs[MODA] = Absent
    /\ fs[MODB].kind = "text"

\* ------------------------------- properties: read_manifest_from_mod_file

\* The entry names that end with "manifest.xml" when case is ignored.
ManifestNames ==
    { <<"manifest", ".xml">>, <<"MANIFEST", ".XML">>, <<"abdata/", "Manifest", ".xml">> }

NotFoundMessage == <<"manifest.xml not found in zip file">>

ScannedIndexes == {io[k][2] : k \in 1..Len(io)}

ModsDir(game_path) == Join(game_path, <<"mods">>)

\* C3: parse_log returns one ModConflict per match of the conflict
\* expression, in the order of the matches, which do not overlap; each has
\* the loaded entry built from the quoted name after "only" and a skipped
\* list that is not empty; a log without a match gives Ok with an empty list.
C3_OneConflictPerMatch ==
    call.op = "parse_log" =>
        LET caps == captures_iter(call.args[1], 1)
            base == ModsDir(call.args[2])
        IN  /\ result.kind = "Ok"
            /\ DOMAIN result.val = 1..Len(caps)
            /\ \A k \in 1..Len(caps) :
                 /\ result.val[k].loaded.path = Join(base, caps[k].g1)
                 /\ Len(result.val[k].skipped) >= 1
                 /\ k < Len(caps) => caps[k].end <= caps[k + 1].start
            /\ caps = <<>> => result = Ok(<<>>)

C3_Witness ==
    /\ call.op = "parse_log"
    /\ call.args[1] = ConflictLine(3, 2, <<COMMA, SP>>) \o ConflictLine(1, 1, <<COMMA, SP>>)
    /\ Len(result.val) = 2
    /\ result.val[1].loaded.name = <<"e">>
    /\ Len(result.val[1].skipped) = 2
    /\ result.val[2].loaded.path = MODA

\* The names between the quotes of a captured "Skipped versions:" list.
RECURSIVE QuotedNames(_)
QuotedNames(raw) ==
    IF raw = <<>> THEN <<>>
    ELSE IF Head(raw) # Q THEN QuotedNames(Tail(raw))
    ELSE LET e == SkipName(raw, 2)
         IN  <<SubSeq(raw, 2, e - 1)>> \o QuotedNames(SubSeq(raw, e + 1, Len(raw)))

HasToken(s, c) == \E k \in 1..Len(s) : s[k] = c

\* C4: the skipped list of every ModConflict has one entry per quoted name of
\* the matched list, in the same order, and no entry's path holds a quote,
\* whichever separator the expression accepted between the names.
C4_OneEntryPerQuotedName ==
    call.op = "parse_log" =>
        LET caps == captures_iter(call.args[1], 1)
            base == ModsDir(call.args[2])
        IN  \A k \in 1..Len(caps) :
              LET names == QuotedNames(caps[k].g2)
                  skipped == result.val[k].skipped
              IN  /\ Len(skipped) = Len(names)
                  /\ \A j \in 1..Len(skipped) :
                       /\ skipped[j].path = Join(base, names[j])
                       /\ ~HasToken(skipped[j].path, Q)

\* A result without sizes and creation times.
Shape(conflicts) ==
    [ k \in 1..Len(conflicts) |->
        [ loaded |-> <<conflicts[k].loaded.name, conflicts[k].loaded.path>>,
          skipped |-> [ j \in 1..Len(conflicts[k].skipped) |->
                          <<conflicts[k].skipped[j].name, conflicts[k].skipped[j].path>> ] ] ]

Entries_(conflicts) ==
    UNION { {conflicts[k].loaded}
            \cup {conflicts[k].skipped[j] : j \in 1..Len(conflicts[k].skipped)} :
            k \in 1..Len(conflicts) }

\* C8: parse_log returns Ok whatever files exist; an entry whose file is
\* missing is still listed, with size 0 and no creation time; the conflicts
\* and entries, their names and paths, are those of the same log parsed over
\* an empty filesystem.
C8_MissingFilesKept ==
    call.op = "parse_log" =>
        /\ result.kind = "Ok"
        /\ \A e \in Entries_(result.val) :
             ~Present(pre.fs, Resolve(e.path)) => e.size = 0 /\ e.created = <<>>
        /\ Shape(result.val)
             = Shape(parse_log_body(call.args[1], call.args[2], NoFiles, NoFault).val)

C8_Witness ==
    /\ call.op = "parse_log"
    /\ pre.fs[MODA].kind = "absent"
    /\ pre.fs[MODB].kind = "text"
    /\ Len(result.val) = 1
    /\ result.val[1].loaded = [name |-> <<"a">>, path |-> MODA, size |-> 0, created |-> <<>>]
    /\ result.val[1].skipped[1] = [name |-> <<"b">>, path |-> MODB, size |-> 2, created |-> <<1>>]

Inside(dir, p) == StartsWith(Resolve(p), Resolve(dir) \o <<SLASH>>)

\* C9: every path of a parse_log result lies inside <game_path>/mods, so
\* deleting paths taken from parse_log results trashes nothing outside it.
C9_PathsInsideMods ==
    /\ call.op = "parse_log" =>
         \A p \in EntryPaths(result.val) : Inside(ModsDir(call.args[2]), p)
    /\ \A t \in trash : Inside(ModsDir(GAME), t.path)

\* -------------------------------------------- properties: all commands

ReadOnlyCommands == {"parse_log", "read_log_from_path", "read_manifest_from_mod_file"}

SameCallSameFiles ==
    /\ note.op = call.op
    /\ note.args = call.args
    /\ note.fs = pre.fs

C10_PanicsBecomeErr ==
    call.op # "none" =>
        /\ result.kind \in {"Ok", "Err"}
        /\ body.kind # "Panic" => result.kind = body.kind /\ result.val = body.val
        /\ body.kind = "Panic" =>
             /\ result.kind = "Err"
             /\ result.val[1] = "Internal error occurred: "
             /\ body.val.type \in {"str", "String"} => result.val[2] = body.val.msg
             /\ body.val.type = "other" => result.val[2] = "Any { .. }"

C10_Witness ==
    /\ call.op = "delete_mods"
    /\ call.args[1] = <<MODA, LOG1>>
    /\ body.kind = "Panic"
    /\ fs[MODA] = Absent
    /\ fs[LOG1] # Absent
    /\ result = Err(<<"Internal error occurred: ", "called unwrap on None">>)


====
